---- MODULE Spec2Model ----
(***************************************************************************)
(* Collectivist: the staged pipeline (organic placement, analyze, scan,    *)
(* describe, render), the describer's worker pool with its incremental     *)
(* index saves, and the analyze command.                                   *)
(*                                                                         *)
(* One behaviour is one command run against one collection directory.      *)
(* Python's None is the string "null"; a local variable that was never     *)
(* assigned is "unbound"; an absent file is NoConfig / state "absent".     *)
(***************************************************************************)
EXTENDS Integers, Sequences, FiniteSets, TLC

\* ---------------------------------------------------------------- bounds
MaxItems == 2
MaxWorkers == 2
\* items detect_new_content finds in one run
MaxNew == 1
MaxEvents == 4
\* pipeline runs the web backend accepts
MaxRuns == 2

\* ------------------------------------------------------------- constants
Paths == 1..MaxItems

\* scanner names that PluginRegistry.register() was called with
Types == {"repositories", "media"}

Modes == {"manual", "scheduled", "organic"}

\* get_categories() of the scanners, in declaration order
RepositoryCategories ==
    << "phext_hyperdimensional", "ai_llm_agents", "terminal_ui",
       "creative_aesthetic", "dev_tools", "esoteric_experimental",
       "system_infrastructure", "utilities_misc" >>

MediaCategories ==
    << "photography", "music_audio", "videos_films", "art_design",
       "screenshots", "podcasts", "presentations", "utilities_misc" >>

FallbackCategories ==
    << "documents", "media_files", "code_projects", "data_files", "archives",
       "configuration", "utilities", "miscellaneous" >>

get_categories(t) ==
    IF t = "media" THEN MediaCategories
    ELSE IF t = "fallback" THEN FallbackCategories
    ELSE RepositoryCategories

\* categories of a collection.yaml, as generate_collection_config writes it
ConfigCategories(c) == get_categories(c.collection_type)

SeqRange(s) == { s[i] : i \in 1..Len(s) }

\* the pipeline's error message when the model probe fails
ProbeErrorMsg == "Cannot reach LLM endpoint - Configure LLM_PROVIDER in .env file"

\* ------------------------------------------------------------ file system
NoConfig == [collection_type |-> "none", author |-> "none"]

Configs == [collection_type : Types, author : {"human", "analyzer"}]

NoIndex == [state |-> "absent", layout |-> "list", overview |-> "null", items |-> << >>]

Item(p, d, c) == [path |-> p, description |-> d, category |-> c]

\* ascending sequence of a finite set of integers
RECURSIVE SortedSeq(_)
SortedSeq(S) ==
    IF S = {} THEN << >>
    ELSE LET m == CHOOSE x \in S : \A y \in S : x <= y
         IN << m >> \o SortedSeq(S \ {m})

\* ------------------------------------------------------------ model replies
\* describer.py 124 and 138: the slice [:150]
DescriptionLimit == 150

\* a string as generate_description sees it: lead blanks, len other
\* characters, trail blanks
Lengths == {1, DescriptionLimit - 1, DescriptionLimit, DescriptionLimit + 1}
NoText == [lead |-> 0, len |-> 0, trail |-> 0]
Texts == [lead : 0..1, len : Lengths, trail : 0..1] \cup {NoText}

\* str.strip()
Strip(t) == [lead |-> 0, len |-> t.len, trail |-> 0]

\* the slice [:n]
Truncate(t, n) ==
    LET lead == IF t.lead < n THEN t.lead ELSE n
        len == IF t.len < n - lead THEN t.len ELSE n - lead
        trail == IF t.trail < n - lead - len THEN t.trail ELSE n - lead - len
    IN [lead |-> lead, len |-> len, trail |-> trail]

\* what llm.chat can return: text that is not JSON, a JSON object with or
\* without the two keys, and JSON that is not an object
NoResponse == [description |-> NoText, category |-> "null", kind |-> "none", raw |-> NoText]
Responses ==
    [description : {NoText}, category : {"null"}, kind : {"text"}, raw : Texts] \cup
    [description : Texts, category : {"missing", "dev_tools", "nonsense"},
     kind : {"object"}, raw : {NoText}] \cup
    [description : {NoText}, category : {"null"}, kind : {"array", "string", "number"},
     raw : {[lead |-> 0, len |-> 1, trail |-> 0]}]

NoResult == [description |-> NoText, category |-> "null", outcome |-> "unset"]

\* ------------------------------------------------------------ web backend
\* the uuids create_collection can draw
CollectionIds == {"c1", "c2"}

\* the ways run_full_pipeline ends: it returns, it raises an exception, or
\* the failed probe calls sys.exit(1)
PipelineEnds == {"return", "exception", "exit"}

\* ------------------------------------------------------- index documents
\* an item record of the file: its path, its description and category
\* ("absent" when the key is missing), and the keys it has beyond the
\* standard fields
FileItems ==
    [path : Paths, description : {"absent", "null", "old"},
     category : {"absent", "dev_tools"}, extra : SUBSET {"stars"}]

\* the file: a bare list of item records, or a mapping whose
\* collection_overview is missing, null, empty or a paragraph
FileDocs ==
    [layout : {"list"}, overview : {"absent"},
     items : UNION { [1..n -> FileItems] : n \in 0..MaxItems }] \cup
    [layout : {"dict"}, overview : {"absent", "null", "", "old"},
     items : UNION { [1..n -> FileItems] : n \in 0..MaxItems }]

NoFile == [layout |-> "list", overview |-> "absent", items |-> << >>]

NotLoaded == [overview |-> "unset", items |-> << >>]

\* load_index, pipeline.py 136-185: item_data.get for the two optional
\* fields, every non-standard key into metadata
LoadItem(rec) ==
    [path |-> rec.path,
     description |-> IF rec.description = "absent" THEN "null" ELSE rec.description,
     category |-> IF rec.category = "absent" THEN "null" ELSE rec.category,
     metadata |-> rec.extra]

LoadIndex(d) ==
    [overview |-> IF d.layout = "dict" /\ d.overview # "absent" THEN d.overview ELSE "null",
     items |-> [ i \in 1..Len(d.items) |-> LoadItem(d.items[i]) ]]

\* save_index, pipeline.py 99-133: the standard fields, then
\* item_dict.update(item.metadata); a mapping only for a truthy overview
SaveItem(it) ==
    [path |-> it.path, description |-> it.description, category |-> it.category,
     extra |-> it.metadata]

SaveIndex(its, overview) ==
    IF overview \notin {"null", ""}
    THEN [layout |-> "dict", overview |-> overview,
          items |-> [ i \in 1..Len(its) |-> SaveItem(its[i]) ]]
    ELSE [layout |-> "list", overview |-> "absent",
          items |-> [ i \in 1..Len(its) |-> SaveItem(its[i]) ]]

VARIABLES
    index_dir,     \* whether the directory <root>/.collection exists
    cfgDot,        \* <root>/.collection/collection.yaml
    cfgRoot,       \* <root>/collection.yaml
    tree,          \* item paths present directly under the root
    filed,         \* item paths moved into a folder by the organic placer
    folders,       \* item paths whose target <root>/<folder>/<name> exists
    disk,          \* <root>/.collection/collection-index.yaml
    rendered,      \* Collection.md / Collection.html written by this run
    pc,            \* position of the main thread
    args,          \* arguments of run_full_pipeline as passed
    skip_process_new, auto_file,    \* the two locals the mode reassigns
    config,        \* local config
    items,         \* local items
    collection_overview,            \* local collection_overview
    new_items,     \* organic placer: new_items, and how many were handled
    new_pos,
    placement,     \* organic placer: confidence of the last placement, 0 if none
    needs,         \* describer: needs_description
    task,          \* describer: one future per needs_description entry
    consumed,      \* futures as_completed has yielded
    successful, failed,
    saving,        \* threads inside save_index
    save_doc,      \* document save_index is writing
    save_ret,      \* where the main thread continues after save_index
    events,        \* what the emitter's callback received
    emitter,       \* EventEmitter fields
    stage_log,     \* history: stage starts and ends
    save_log,      \* history: item lists written during Describe
    snapshot,      \* history: the last complete index file
    probe,         \* history: outcome of the probe before Describe
    loaded,        \* history: the items describe_collection was called with
    response,      \* generate_description: the model's reply
    parsed,        \* generate_description: its return value
    handler,       \* whether the emitter's callback is running
    yaml_doc,      \* the index file with every key of its item records
    in_memory,     \* what load_index returned for it
    plugins_path,  \* which plugins directory sits next to the pipeline
    root_detects,  \* the scanners whose directory sniff accepts the root
    registry,      \* PluginRegistry._plugins: the names in insertion order
    imports,       \* how many of the pipeline's plugin imports have run
    detected,      \* what auto_detect returned
    exit_code,     \* what the command line process exited with, -1 before
    collections,   \* web backend: the status of each collection id
    pipeline_runs, \* web backend: the run records, a run id being a position
    analyzer_tasks, \* web backend: analyzer tasks added and not yet run
    last_status,   \* history: the HTTP status of the last request, 0 after a task
    error          \* exception that ended the run

vars == << index_dir, cfgDot, cfgRoot, tree, filed, folders, disk, rendered, pc,
           args, skip_process_new, auto_file, config, items, collection_overview,
           new_items, new_pos, placement, needs, task, consumed, successful, failed,
           saving, save_doc, save_ret, events, emitter, stage_log, save_log,
           snapshot, probe, loaded, response, parsed, handler,
           yaml_doc, in_memory, plugins_path, root_detects, registry, imports,
           detected, exit_code, collections, pipeline_runs, analyzer_tasks,
           last_status, error >>

\* ------------------------------------------------------------- event bus
\* ConfidenceThreshold: default of run_full_pipeline, in percent
ConfidenceThreshold == 70

NoEmitter == [stage |-> "", total |-> 0, current |-> 0]

\* EventEmitter.emit: the event handed to the callback.  An argument of 0
\* is an argument that was not given (Python's `or` treats both alike).
Emit(em, level, msg, about, current_item, progress_current, progress_total, percent) ==
    LET c == IF progress_current # 0 THEN progress_current ELSE em.current
        n == IF progress_total # 0 THEN progress_total ELSE em.total
    IN [ i |-> c, stage |-> em.stage, level |-> level, msg |-> msg, about |-> about,
         current_item |-> current_item, n |-> n,
         pct |-> IF percent = 0 /\ n > 0 THEN (c * 100) \div n ELSE percent ]

Info(em, msg, about) == Emit(em, "info", msg, about, 0, 0, 0, 0)
Warn(em, msg, about) == Emit(em, "warn", msg, about, 0, 0, 0, 0)
Error(em, msg, about) == Emit(em, "error", msg, about, 0, 0, 0, 0)
Success(em, msg, about) == Emit(em, "success", msg, about, 0, 0, 0, 0)

\* EventEmitter.set_stage: new emitter fields, and the event
SetStageEm(stage, total) == [stage |-> stage, total |-> total, current |-> 0]
SetStageEv(stage, total) == Info(SetStageEm(stage, total), "Starting stage", 0)

\* EventEmitter.set_progress
SetProgressEm(em, current) == [em EXCEPT !.current = current]
SetProgressEv(em, current, name) ==
    Emit(SetProgressEm(em, current), "info", "Processing item", name, name,
         current, em.total, 0)

\* EventEmitter.complete_stage
CompleteStageEv(em, msg) ==
    Emit(em, "success", msg, 0, 0, em.total, em.total, 100)

\* ------------------------------------------------------------ index store
\* save_index: the document yaml.dump writes
SaveIndexDoc(its, overview) ==
    IF overview \notin {"null", ""}
    THEN [state |-> "ok", layout |-> "dict", overview |-> overview, items |-> its]
    ELSE [state |-> "ok", layout |-> "list", overview |-> "null", items |-> its]

\* load_index: (items, overview) of the file
LoadIndexItems(d) == IF d.state = "ok" THEN d.items ELSE << >>
LoadIndexOverview(d) ==
    IF d.state = "ok" /\ d.layout = "dict" THEN d.overview ELSE "null"

\* --------------------------------------------------------------- scanners
\* preserve_data[path] of run_full_pipeline: the last item of that path wins
PreservedOf(existing, p, field) ==
    LET idx == { i \in 1..Len(existing) : existing[i].path = p }
    IN IF idx = {} THEN "null"
       ELSE LET last == CHOOSE i \in idx : \A j \in idx : j <= i
            IN IF field = "description" THEN existing[last].description
               ELSE existing[last].category

\* FallbackScanner.get_file_type_category: path 1 is a directory, every
\* other path a .txt file
get_file_type_category(p) == IF p = 1 THEN "directories" ELSE "documents"

\* existing.get('category') of the typed scanners, and
\* existing.get('category', auto_category) of the fallback scanner
CategoryOf(t, existing, p) ==
    IF t = "fallback" /\ \A i \in 1..Len(existing) : existing[i].path # p
    THEN get_file_type_category(p)
    ELSE PreservedOf(existing, p, "category")

\* a scan that preserves the description and forgets the category
ScanItemsNoCategory(t, found, existing) ==
    LET s == SortedSeq(found)
    IN [ i \in 1..Len(s) |->
           Item(s[i], PreservedOf(existing, s[i], "description"), "null") ]

\* scan() of the scanners: one item per path found, in size order, with the
\* preserved description and category
ScanItems(t, found, existing) ==
    LET s == SortedSeq(found)
    IN [ i \in 1..Len(s) |->
           Item(s[i], PreservedOf(existing, s[i], "description"),
                      CategoryOf(t, existing, s[i])) ]

\* ------------------------------------------------------------------ Init
\* Index files a previous run can have left: items in scan order, an item
\* described (with a declared category) or not, an overview only next to
\* at least one description.
PriorItems ==
    { << >> } \cup
    { its \in UNION { [ 1..n -> [path : Paths, description : {"null", "old"},
                                 category : {"null", "dev_tools"}] ] : n \in 1..MaxItems } :
        /\ \A i \in 1..Len(its) : \A j \in 1..Len(its) : i < j => its[i].path < its[j].path
        /\ \A i \in 1..Len(its) :
              (its[i].description = "null") <=> (its[i].category = "null") }

PriorIndexes ==
    {NoIndex} \cup
    { SaveIndexDoc(its, ov) : its \in PriorItems, ov \in {"null"} } \cup
    { SaveIndexDoc(its, "old") :
        its \in { x \in PriorItems : \E i \in 1..Len(x) : x[i].description # "null" } }

NoArgs ==
    [ skip_process_new |-> FALSE, auto_file |-> FALSE, cmd |-> "none",
      workflow_mode |-> "manual", skip_analyze |-> FALSE, skip_scan |-> FALSE,
      skip_describe |-> FALSE, skip_readme |-> FALSE, max_workers |-> 1 ]

NoDoc == NoIndex

\* the index after a run that scanned every path and described the first k
DescribedUpTo(k) ==
    SaveIndexDoc([ i \in 1..MaxItems |->
                     IF i <= k THEN Item(i, "old", "dev_tools")
                     ELSE Item(i, "null", "null") ],
                 IF k > 0 THEN "old" ELSE "null")

\* everything but the collection directory
InitRun ==
    /\ filed = {}
    /\ rendered = [overview |-> "null", total |-> 0, written |-> FALSE]
    /\ pc = "idle"
    /\ args = NoArgs
    /\ skip_process_new = FALSE
    /\ auto_file = FALSE
    /\ config = NoConfig
    /\ items = << >>
    /\ collection_overview = "unbound"
    /\ new_items = << >>
    /\ new_pos = 0
    /\ placement = 0
    /\ needs = << >>
    /\ task = << >>
    /\ consumed = {}
    /\ successful = 0
    /\ failed = << >>
    /\ saving = {}
    /\ save_doc = NoDoc
    /\ save_ret = "none"
    /\ events = << >>
    /\ emitter = NoEmitter
    /\ stage_log = << >>
    /\ save_log = << >>
    /\ snapshot = disk
    /\ probe = "none"
    /\ loaded = << >>
    /\ response = NoResponse
    /\ parsed = NoResult
    /\ handler = FALSE
    /\ in_memory = NotLoaded
    /\ registry = << >>
    /\ imports = 0
    /\ detected = "unset"
    /\ exit_code = -1
    /\ collections = [ c \in CollectionIds |-> "absent" ]
    /\ pipeline_runs = << >>
    /\ analyzer_tasks = {}
    /\ last_status = 0
    /\ error = "none"

\* <root>/.collection exists when a file in it does
HasIndexDir(dot, index) ==
    IF dot # NoConfig \/ index.state # "absent" THEN {TRUE} ELSE BOOLEAN

InitConfigs ==
    /\ cfgDot \in {NoConfig, [collection_type |-> "repositories", author |-> "human"]}
    /\ cfgRoot \in {NoConfig} \cup [collection_type : Types, author : {"human"}]

\* a directory that is empty or holds every path, with no index or the
\* index of an earlier run over these paths that described all of them or
\* all but the last
Init ==
    /\ InitConfigs
    /\ tree \in {{}, Paths}
    /\ folders = {}
    /\ disk \in {NoIndex, DescribedUpTo(MaxItems - 1), DescribedUpTo(MaxItems)}
    /\ index_dir \in HasIndexDir(cfgDot, disk)
    /\ yaml_doc = NoFile
    /\ plugins_path = "absent"
    /\ root_detects = {}
    /\ InitRun

\* a collection that has its config and the index of an earlier run
InitExisting ==
    /\ Init
    /\ cfgDot # NoConfig
    /\ disk # NoIndex

\* a root config, any directory content, and folders that may already hold
\* an entry of the same name as an item
InitOrganic ==
    /\ cfgDot = NoConfig
    /\ cfgRoot \in {NoConfig, [collection_type |-> "repositories", author |-> "human"]}
    /\ tree \in SUBSET Paths
    /\ folders \in SUBSET Paths
    /\ disk \in {NoIndex, DescribedUpTo(MaxItems)}
    /\ index_dir \in HasIndexDir(cfgDot, disk)
    /\ yaml_doc = NoFile
    /\ plugins_path = "absent"
    /\ root_detects = {}
    /\ InitRun

\* a collection of a type whose prompt template formats, before a call of
\* generate_description
InitParse ==
    /\ cfgDot = NoConfig
    /\ cfgRoot \in [collection_type : {"repositories", "fallback"}, author : {"human"}]
    /\ tree = {}
    /\ folders = {}
    /\ disk = NoIndex
    /\ index_dir = FALSE
    /\ yaml_doc = NoFile
    /\ plugins_path = "absent"
    /\ root_detects = {}
    /\ InitRun

\* any root directory and either plugins directory, before the pipeline
\* module's imports
InitRegistry ==
    /\ cfgDot = NoConfig
    /\ cfgRoot = NoConfig
    /\ tree = {}
    /\ folders = {}
    /\ disk = NoIndex
    /\ index_dir = FALSE
    /\ yaml_doc = NoFile
    /\ plugins_path \in {"absent", "plugins", "portable"}
    /\ root_detects \in SUBSET {"repositories", "media", "documents", "obsidian"}
    /\ InitRun

\* any index file, before load_index
InitIndex ==
    /\ cfgDot = NoConfig
    /\ cfgRoot = NoConfig
    /\ tree = {}
    /\ folders = {}
    /\ disk = NoIndex
    /\ index_dir = TRUE
    /\ yaml_doc \in FileDocs
    /\ plugins_path = "absent"
    /\ root_detects = {}
    /\ InitRun

\* the web backend after start: no collection, no run
InitWeb ==
    /\ cfgDot = NoConfig
    /\ cfgRoot = NoConfig
    /\ tree = {}
    /\ folders = {}
    /\ disk = NoIndex
    /\ index_dir = FALSE
    /\ yaml_doc = NoFile
    /\ plugins_path = "absent"
    /\ root_detects = {}
    /\ InitRun

\* an emitter with a callback, before the first emit
InitBus ==
    /\ cfgDot = NoConfig
    /\ cfgRoot = NoConfig
    /\ tree = {}
    /\ folders = {}
    /\ disk = NoIndex
    /\ index_dir = FALSE
    /\ yaml_doc = NoFile
    /\ plugins_path = "absent"
    /\ root_detects = {}
    /\ InitRun

\* the configs of InitConfigs, and a root config of the fallback type
InitConfigsCommands ==
    /\ cfgDot \in {NoConfig, [collection_type |-> "repositories", author |-> "human"]}
    /\ cfgRoot \in {NoConfig} \cup
                   [collection_type : Types \cup {"fallback"}, author : {"human"}]

\* any directory content next to any index an earlier run can have left
InitCommands ==
    /\ InitConfigsCommands
    /\ tree \in SUBSET Paths
    /\ folders = {}
    /\ disk \in PriorIndexes
    /\ index_dir \in HasIndexDir(cfgDot, disk)
    /\ yaml_doc = NoFile
    /\ plugins_path = "absent"
    /\ root_detects = {}
    /\ InitRun

\* variables grouped by who changes them
rootVars == << cfgDot, cfgRoot, tree, filed, folders, disk, rendered >>
fsVars == << index_dir, rootVars >>
organicVars == << new_items, new_pos, placement >>
describeVars == << needs, task, consumed, successful, failed, probe, loaded >>
saveVars == << saving, save_doc, save_ret, save_log, snapshot >>
busVars == << events, emitter >>
localVars == << args, skip_process_new, auto_file >>
callVars == << response, parsed >>
indexVars == << yaml_doc, in_memory >>
registryVars == << plugins_path, root_detects, registry, imports, detected >>
webVars == << collections, pipeline_runs, analyzer_tasks, last_status >>

StageStart(s) == [stage |-> s, ev |-> "start"]
StageEnd(s) == [stage |-> s, ev |-> "end"]

\* ------------------------------------------------------- run_full_pipeline
\* the blocks with Render placed before Describe
StageOrderRenderFirst ==
    << "organic", "analyze", "config", "scan", "render", "describe", "done" >>

\* The blocks of run_full_pipeline in program order
StageOrder == << "organic", "analyze", "config", "scan", "describe", "render", "done" >>

\* the block that follows block s
StageAfter(s) ==
    LET i == CHOOSE k \in 1..Len(StageOrder) : StageOrder[k] = s
    IN StageOrder[i + 1]

\* the scheduled mode leaving the flag as passed
ModeSkipProcessNewAsPassed(mode, flag) ==
    IF mode = "organic" THEN FALSE ELSE flag

\* lines 236-248: what the workflow mode does to skip_process_new
ModeSkipProcessNew(mode, flag) ==
    IF mode = "scheduled" THEN TRUE
    ELSE IF mode = "organic" THEN FALSE
    ELSE flag

\* lines 236-248: what the workflow mode does to auto_file
ModeAutoFile(mode, flag) ==
    IF mode = "scheduled" THEN FALSE ELSE flag

\* entry of run_full_pipeline (lines 219-248), called with any arguments
StartPipeline ==
    /\ pc = "idle"
    /\ \E mode \in Modes, sa, ss, sd, sr, sp, af \in BOOLEAN, w \in 1..MaxWorkers :
         /\ args' = [ skip_process_new |-> sp, auto_file |-> af, cmd |-> "update",
                      workflow_mode |-> mode, skip_analyze |-> sa, skip_scan |-> ss,
                      skip_describe |-> sd, skip_readme |-> sr, max_workers |-> w ]
         /\ skip_process_new' = ModeSkipProcessNew(mode, sp)
         /\ auto_file' = ModeAutoFile(mode, af)
    /\ index_dir' = TRUE
    /\ pc' = StageOrder[1]
    /\ UNCHANGED << webVars, exit_code, callVars, handler, indexVars, registryVars, rootVars, config, items, collection_overview, organicVars,
                    describeVars, saveVars, busVars, stage_log, error >>

\* Stage 0, lines 250-271, with ContentProcessor.process_new_content up to
\* the item loop (organic.py 445-467)
StageOrganic ==
    /\ pc = "organic"
    /\ IF skip_process_new
       THEN /\ pc' = StageAfter("organic")
            /\ UNCHANGED << organicVars, busVars, stage_log >>
       ELSE LET em == SetStageEm("analyze", 0)
                head == << SetStageEv("analyze", 0),
                           Info(em, "Starting new content processing", 0) >>
            IN /\ emitter' = em
               /\ IF cfgRoot = NoConfig
                  THEN /\ events' = events \o head \o
                                    << Error(em, "No collection.yaml found", 0) >>
                       /\ stage_log' = stage_log \o
                                       << StageStart("organic"), StageEnd("organic") >>
                       /\ pc' = StageAfter("organic")
                       /\ UNCHANGED organicVars
                  ELSE \E new \in { S \in SUBSET tree : Cardinality(S) <= MaxNew } :
                         LET found == << Info(em, "Scanning for new content", 0),
                                         Info(em, "Found new items", 0) >>
                         IN IF new = {}
                            THEN /\ events' = events \o head \o found \o
                                       << Info(em, "No new content detected", 0) >>
                                 /\ stage_log' = stage_log \o
                                       << StageStart("organic"), StageEnd("organic") >>
                                 /\ pc' = StageAfter("organic")
                                 /\ UNCHANGED organicVars
                            ELSE /\ events' = events \o head \o found
                                 /\ stage_log' = stage_log \o << StageStart("organic") >>
                                 /\ new_items' = SortedSeq(new)
                                 /\ new_pos' = 0
                                 /\ placement' = 0
                                 /\ pc' = "organic_loop"
    /\ UNCHANGED << webVars, exit_code, callVars, handler, indexVars, registryVars, fsVars, localVars, config, items, collection_overview,
                    describeVars, saveVars, error >>

\* the decision with a confidence equal to the threshold left out
ShouldAutoFileAbove(af, confidence, threshold) == af /\ confidence > threshold

\* organic.py 476-480
ShouldAutoFile(af, confidence, threshold) == af /\ confidence >= threshold

\* one iteration of the item loop, organic.py 469-511
OrganicItem ==
    /\ pc = "organic_loop"
    /\ new_pos < Len(new_items)
    /\ LET i == new_pos + 1
           p == new_items[i]
           em == SetProgressEm(emitter, i)
           head == << SetProgressEv(emitter, i, p),
                      Info(em, "Analyzing placement", p) >>
       IN /\ emitter' = em
          /\ new_pos' = i
          /\ \E confidence \in {50, ConfidenceThreshold, 90}, moved \in BOOLEAN :
               /\ placement' = confidence
               /\ IF ShouldAutoFile(auto_file, confidence, ConfidenceThreshold)
                  THEN IF moved
                       THEN /\ tree' = tree \ {p}
                            /\ filed' = filed \cup {p}
                            /\ folders' = folders \cup {p}
                            /\ events' = events \o head \o
                                         << Success(em, "Auto-filed", p) >>
                       ELSE /\ events' = events \o head \o
                                         << Error(em, "Failed to auto-file", p) >>
                            /\ UNCHANGED << tree, filed, folders >>
                  ELSE /\ moved = FALSE
                       /\ events' = events \o head \o << Info(em, "Suggest", p) >>
                       /\ UNCHANGED << tree, filed, folders >>
    /\ UNCHANGED << webVars, exit_code, callVars, handler, indexVars, registryVars, index_dir, cfgDot, cfgRoot, disk, rendered, pc, localVars, config, items,
                    collection_overview, new_items, describeVars, saveVars,
                    stage_log, error >>

\* end of process_new_content, organic.py 513-517
OrganicDone ==
    /\ pc = "organic_loop"
    /\ new_pos = Len(new_items)
    /\ events' = events \o << CompleteStageEv(emitter, "Processed items") >>
    /\ stage_log' = stage_log \o << StageEnd("organic") >>
    /\ pc' = StageAfter("organic")
    /\ placement' = 0
    /\ UNCHANGED << webVars, exit_code, callVars, handler, indexVars, registryVars, fsVars, localVars, config, items, collection_overview,
                    new_items, new_pos, describeVars, saveVars, emitter, error >>

\* CollectionAnalyzer.create_collection, analyzer.py 204-231: the file it
\* writes is <path>/collection.yaml, whatever is there
CreateCollection(root_cfg, t) == [collection_type |-> t, author |-> "analyzer"]

\* line 283: the test that decides whether the pipeline calls the analyzer
ConfigMissing(dot, root) == dot = NoConfig

\* Stage 1, lines 273-292
StageAnalyze ==
    /\ pc = "analyze"
    /\ IF args.skip_analyze
       THEN UNCHANGED << cfgRoot, stage_log >>
       ELSE /\ stage_log' = stage_log \o << StageStart("analyze"), StageEnd("analyze") >>
            /\ IF ConfigMissing(cfgDot, cfgRoot)
               THEN \E t \in Types : cfgRoot' = CreateCollection(cfgRoot, t)
               ELSE UNCHANGED cfgRoot
    /\ pc' = StageAfter("analyze")
    /\ UNCHANGED << webVars, exit_code, callVars, handler, indexVars, registryVars, index_dir, cfgDot, tree, filed, folders, disk, rendered, localVars, config, items,
                    collection_overview, organicVars, describeVars, saveVars,
                    busVars, error >>

\* load_collection_config, lines 37-66 (NoConfig when it raises)
LoadCollectionConfig(dot, root) == IF dot # NoConfig THEN dot ELSE root

\* lines 294-303
LoadConfig ==
    /\ pc = "config"
    /\ LET c == LoadCollectionConfig(cfgDot, cfgRoot)
       IN IF c = NoConfig
          THEN /\ error' = "FileNotFoundError"
               /\ pc' = "failed"
               /\ UNCHANGED config
          ELSE /\ config' = c
               /\ pc' = StageAfter("config")
               /\ UNCHANGED error
    /\ UNCHANGED << webVars, exit_code, callVars, handler, indexVars, registryVars, fsVars, localVars, items, collection_overview, organicVars,
                    describeVars, saveVars, busVars, stage_log >>

\* save_index up to open(index_path, 'w'): the file is truncated
SaveBegin(doc, ret) ==
    /\ disk' = [state |-> "partial", layout |-> "list", overview |-> "null", items |-> << >>]
    /\ saving' = saving \cup {"main"}
    /\ save_doc' = doc
    /\ save_ret' = ret
    /\ pc' = "saving"

\* Stage 2, lines 305-341
StageScan ==
    /\ pc = "scan"
    /\ IF args.skip_scan
       THEN /\ items' = LoadIndexItems(disk)
            /\ collection_overview' = LoadIndexOverview(disk)
            /\ pc' = StageAfter("scan")
            /\ UNCHANGED << disk, saveVars, stage_log >>
       ELSE LET existing_items == LoadIndexItems(disk)
                existing_overview == LoadIndexOverview(disk)
                scanned == ScanItems(config.collection_type, tree, existing_items)
            IN /\ items' = scanned
               /\ stage_log' = stage_log \o << StageStart("scan") >>
               /\ SaveBegin(SaveIndexDoc(scanned, existing_overview), "scan")
               /\ UNCHANGED << collection_overview, save_log, snapshot >>
    /\ UNCHANGED << webVars, exit_code, callVars, handler, indexVars, registryVars, index_dir, cfgDot, cfgRoot, tree, filed, folders, rendered, localVars, config,
                    organicVars, describeVars, busVars, error >>

\* ------------------------------------------------------------- describer
\* What a task meets: the scanner finds no content, the model call raises,
\* the model replies JSON (with a declared or an undeclared category), or
\* the model replies plain text.
Replies ==
    { [description |-> "null", category |-> "null", kind |-> "nocontent"],
      [description |-> "null", category |-> "null", kind |-> "error"],
      [description |-> "X", category |-> "dev_tools", kind |-> "json"],
      [description |-> "X", category |-> "nonsense", kind |-> "json"],
      [description |-> "raw", category |-> "null", kind |-> "text"] }

Last(s) == s[Len(s)]

\* CollectionDescriber.generate_description + process_item, lines 33-177.
\* The media template names placeholders generate_description does not
\* supply; the second prompt_template.format (line 107) raises out of the
\* task.
ProcessItem(t, r) ==
    IF t = "media"
    THEN [description |-> "null", category |-> "null", outcome |-> "raise"]
    ELSE IF r.kind \in {"nocontent", "error"}
    THEN [description |-> "null", category |-> "null", outcome |-> "fail"]
    ELSE IF r.kind = "json"
    THEN [description |-> r.description,
          category |-> IF r.category \in SeqRange(get_categories(t))
                       THEN r.category ELSE Last(get_categories(t)),
          outcome |-> "ok"]
    ELSE [description |-> r.description,
          category |-> Last(get_categories(t)), outcome |-> "ok"]

\* generate_description from the reply on, lines 121-143: json.loads of the
\* stripped reply; the two result.get of an object; the raw reply when
\* json.loads raises JSONDecodeError; None (outer except) when result.get
\* raises because the JSON value is not an object
ParseResponse(r, valid_categories) ==
    IF r.kind = "object"
    THEN LET category == IF r.category = "missing" THEN "utilities_misc" ELSE r.category
         IN [description |-> Truncate(Strip(r.description), DescriptionLimit),
             category |-> IF category \in SeqRange(valid_categories)
                          THEN category ELSE Last(valid_categories),
             outcome |-> "ok"]
    ELSE IF r.kind = "text"
    THEN [description |-> Truncate(Strip(r.raw), DescriptionLimit),
          category |-> Last(valid_categories), outcome |-> "ok"]
    ELSE [description |-> NoText, category |-> "null", outcome |-> "none"]

\* one call of generate_description for an item with content, lines 113-143
GenerateDescription ==
    /\ pc = "idle"
    /\ \E r \in Responses :
         /\ response' = r
         /\ parsed' = ParseResponse(r, ConfigCategories(cfgRoot))
    /\ pc' = "done"
    /\ UNCHANGED << webVars, exit_code, handler, indexVars, registryVars, fsVars, localVars, config, items, collection_overview,
                    organicVars, describeVars, saveVars, busVars, stage_log, error >>

\* EventEmitter.emit, events.py 128-154, up to the call of the callback: the
\* event is built and handed to the consumer, and the producer is inside
\* self.callback(event)
EmitCall ==
    /\ pc = "idle"
    /\ ~handler
    /\ Len(events) < MaxEvents
    /\ \E level \in {"info", "warn", "error", "success"} :
         events' = Append(events, Emit(emitter, level, "message", 0, 0, 0, 0, 0))
    /\ handler' = TRUE
    /\ pc' = "emit"
    /\ UNCHANGED << webVars, exit_code, callVars, indexVars, registryVars, fsVars, localVars, config, items,
                    collection_overview, organicVars, describeVars, saveVars, emitter,
                    stage_log, error >>

\* the callback (ConsoleEventHandler.handle_event, events.py 167-188) returns,
\* and with it emit
EmitReturn ==
    /\ pc = "emit"
    /\ handler
    /\ handler' = FALSE
    /\ pc' = "idle"
    /\ UNCHANGED << webVars, exit_code, callVars, indexVars, registryVars, fsVars, localVars, config, items,
                    collection_overview, organicVars, describeVars, saveVars, busVars,
                    stage_log, error >>

\* PluginRegistry.register: an assignment to a dict keyed by name, which
\* keeps the position of a name it already holds
Register(reg, name) ==
    IF \E i \in 1..Len(reg) : reg[i] = name THEN reg ELSE Append(reg, name)

\* detect(): the fallback scanner returns True for every path
Detect(name, detects) == name = "fallback" \/ name \in detects

\* PluginRegistry.auto_detect: the first registered scanner that detects
AutoDetect(reg, detects) ==
    IF \E i \in 1..Len(reg) : Detect(reg[i], detects)
    THEN reg[CHOOSE i \in 1..Len(reg) :
                 /\ Detect(reg[i], detects)
                 /\ \A j \in 1..(i - 1) : ~Detect(reg[j], detects)]
    ELSE "None"

\* the plugin imports of the pipeline module, in order, and the name each
\* module registers
PluginImports ==
    << "repository_scanner", "fallback_scanner", "media", "documents", "obsidian",
       "fallback" >>

RegisteredName(module) ==
    CASE module = "repository_scanner" -> "repositories"
      [] module = "fallback_scanner" -> "fallback"
      [] OTHER -> module

\* whether the import succeeds: the modules of src/plugins import
\* .plugin_interface relatively and raise ImportError as top-level
\* modules, collectivist-portable/plugins holds media and documents only
Importable(module, path) ==
    path = "portable" /\ module \in {"media", "documents"}

\* pipeline.py 20-21: the two scanners of the source directory
ImportScanner ==
    /\ imports < 2
    /\ registry' = Register(registry, RegisteredName(PluginImports[imports + 1]))
    /\ imports' = imports + 1
    /\ UNCHANGED << webVars, exit_code, callVars, handler, indexVars, plugins_path, root_detects, detected,
                    fsVars, localVars, config, items, collection_overview, organicVars,
                    describeVars, saveVars, busVars, stage_log, error, pc >>

\* pipeline.py 23-34: the plugins directory, whose first failing import
\* ends the try block
ImportPlugin ==
    /\ imports \in 2..(Len(PluginImports) - 1)
    /\ IF plugins_path # "absent" /\ Importable(PluginImports[imports + 1], plugins_path)
       THEN /\ registry' = Register(registry, RegisteredName(PluginImports[imports + 1]))
            /\ imports' = imports + 1
       ELSE /\ imports' = Len(PluginImports)
            /\ UNCHANGED registry
    /\ UNCHANGED << webVars, exit_code, callVars, handler, indexVars, plugins_path, root_detects, detected,
                    fsVars, localVars, config, items, collection_overview, organicVars,
                    describeVars, saveVars, busVars, stage_log, error, pc >>

\* PluginRegistry.auto_detect(root)
AutoDetectCall ==
    /\ imports = Len(PluginImports)
    /\ detected = "unset"
    /\ detected' = AutoDetect(registry, root_detects)
    /\ UNCHANGED << webVars, exit_code, callVars, handler, indexVars, plugins_path, root_detects, registry,
                    imports, fsVars, localVars, config, items, collection_overview,
                    organicVars, describeVars, saveVars, busVars, stage_log, error, pc >>

\* everything the web backend's handlers leave alone
pipelineState ==
    << exit_code, callVars, handler, indexVars, registryVars, fsVars, localVars, config,
       items, collection_overview, organicVars, describeVars, saveVars, busVars,
       stage_log, error, pc >>

\* collection_id in collections
Registered(c) == collections[c] \notin {"absent", "deleted"}

\* POST /collections, main.py 170-205: 400 for a path that does not exist,
\* else a new id with status analyzing and an analyzer task
CreateCollectionRequest ==
    /\ \E c \in CollectionIds, path_exists \in BOOLEAN :
         /\ collections[c] = "absent"
         /\ IF path_exists
            THEN /\ collections' = [collections EXCEPT ![c] = "analyzing"]
                 /\ analyzer_tasks' = analyzer_tasks \cup {c}
                 /\ last_status' = 200
            ELSE /\ last_status' = 400
                 /\ UNCHANGED << collections, analyzer_tasks >>
    /\ UNCHANGED << pipeline_runs, pipelineState >>

\* DELETE /collections/{id}, main.py 257-265
DeleteCollection ==
    /\ \E c \in CollectionIds :
         IF Registered(c)
         THEN /\ collections' = [collections EXCEPT ![c] = "deleted"]
              /\ last_status' = 200
         ELSE /\ last_status' = 404
              /\ UNCHANGED collections
    /\ UNCHANGED << pipeline_runs, analyzer_tasks, pipelineState >>

\* the test of run_pipeline letting the analyzing and error statuses pass
CanRunUnlessRunning(status) == status # "running"

\* main.py 279-280: the status a collection must have for a run
CanRun(status) == status = "idle"

\* POST /collections/{id}/run, main.py 268-311
RunPipeline ==
    /\ \E c \in CollectionIds :
         IF ~Registered(c)
         THEN /\ last_status' = 404
              /\ UNCHANGED << collections, pipeline_runs >>
         ELSE IF ~CanRun(collections[c])
         THEN /\ last_status' = 409
              /\ UNCHANGED << collections, pipeline_runs >>
         ELSE /\ Len(pipeline_runs) < MaxRuns
              /\ pipeline_runs' =
                     Append(pipeline_runs, [collection_id |-> c, status |-> "queued"])
              /\ collections' = [collections EXCEPT ![c] = "running"]
              /\ last_status' = 200
    /\ UNCHANGED << analyzer_tasks, pipelineState >>

\* run_analyzer_task, main.py 432-475; on a deleted collection both the
\* update and the except block raise KeyError
RunAnalyzerTask ==
    /\ \E c \in analyzer_tasks, ok \in BOOLEAN :
         /\ analyzer_tasks' = analyzer_tasks \ {c}
         /\ IF Registered(c)
            THEN collections' = [collections EXCEPT ![c] = IF ok THEN "idle" ELSE "error"]
            ELSE UNCHANGED collections
    /\ last_status' = 0
    /\ UNCHANGED << pipeline_runs, pipelineState >>

\* run_pipeline_task, main.py 478-549, from its first line to its last:
\* run_full_pipeline is a plain call, so no request is served in between.
\* except Exception does not catch the SystemExit of the failed probe.
RunPipelineTask ==
    /\ \E r \in 1..Len(pipeline_runs) :
         LET c == pipeline_runs[r].collection_id
         IN /\ pipeline_runs[r].status = "queued"
            /\ IF ~Registered(c)
               THEN \* collections[collection_id] raises KeyError, twice
                    /\ pipeline_runs' = [pipeline_runs EXCEPT ![r].status = "failed"]
                    /\ UNCHANGED collections
               ELSE \E end \in PipelineEnds :
                    IF end = "return"
                    THEN /\ pipeline_runs' =
                               [pipeline_runs EXCEPT ![r].status = "completed"]
                         /\ collections' = [collections EXCEPT ![c] = "idle"]
                    ELSE IF end = "exception"
                    THEN /\ pipeline_runs' = [pipeline_runs EXCEPT ![r].status = "failed"]
                         /\ collections' = [collections EXCEPT ![c] = "error"]
                    ELSE /\ pipeline_runs' = [pipeline_runs EXCEPT ![r].status = "running"]
                         /\ UNCHANGED collections
    /\ last_status' = 0
    /\ UNCHANGED << analyzer_tasks, pipelineState >>

\* items, collection_overview = load_index(index_path)
LoadStep ==
    /\ pc = "idle"
    /\ in_memory' = LoadIndex(yaml_doc)
    /\ pc' = "loaded"
    /\ UNCHANGED << webVars, exit_code, callVars, handler, yaml_doc, registryVars, fsVars, localVars, config, items,
                    collection_overview, organicVars, describeVars, saveVars, busVars,
                    stage_log, error >>

\* save_index(items, index_path, collection_overview) on what was loaded
SaveStep ==
    /\ pc = "loaded"
    /\ yaml_doc' = SaveIndex(in_memory.items, in_memory.overview)
    /\ pc' = "saved"
    /\ UNCHANGED << webVars, exit_code, callVars, handler, in_memory, registryVars, fsVars, localVars, config, items,
                    collection_overview, organicVars, describeVars, saveVars, busVars,
                    stage_log, error >>

\* the filter that takes every item, described or not
NeedsDescriptionAlways(it) == TRUE

\* lines 272-276
NeedsDescriptionTest(it) == it.description \in {"null", ""}

NeedsDescription(its) ==
    LET sel == SelectSeq(its, NeedsDescriptionTest)
    IN [ i \in 1..Len(sel) |-> sel[i].path ]

\* the merge rebuilding the list, keeping only the new result
MergeResultForgetful(its, p, d, c) ==
    [ i \in 1..Len(its) |->
        IF its[i].path = p THEN Item(p, d, c) ELSE Item(its[i].path, "null", "null") ]

\* the merge replacing the list by the one described item
MergeResultAlone(its, p, d, c) == << Item(p, d, c) >>

\* the merge by order of completion: the first item still without a
\* description takes the result
MergeResultInOrder(its, p, d, c) ==
    LET idx == { i \in 1..Len(its) : its[i].description \in {"null", ""} }
    IN IF idx = {} THEN its
       ELSE LET first == CHOOSE i \in idx : \A j \in idx : i <= j
            IN [its EXCEPT ![first] = Item(its[first].path, d, c)]

\* lines 336-341: the first item of that path takes the result
MergeResult(its, p, d, c) ==
    LET idx == { i \in 1..Len(its) : its[i].path = p }
    IN IF idx = {} THEN its
       ELSE LET first == CHOOSE i \in idx : \A j \in idx : i <= j
            IN [its EXCEPT ![first] = Item(p, d, c)]


NewTask(p) ==
    [description |-> "null", category |-> "null", outcome |-> "none",
     item |-> p, st |-> "pending"]

\* the gate that reports nothing
ProbeGateOpen(probe_ok) == "describe_collection"

\* lines 355-361: the probe gate
ProbeGate(probe_ok) == IF probe_ok THEN "describe_collection" ELSE "exit1"

\* Stage 3 up to the submission of the tasks: pipeline.py 343-374 and
\* describer.py 272-314
StageDescribe ==
    /\ pc = "describe"
    /\ IF args.skip_describe
       THEN /\ pc' = StageAfter("describe")
            /\ UNCHANGED << describeVars, busVars, stage_log, error >>
       ELSE \E probe_ok \in BOOLEAN :
            IF ProbeGate(probe_ok) = "exit1"
            THEN /\ events' = events \o << Error(emitter, ProbeErrorMsg, 0) >>
                 /\ stage_log' = stage_log \o << StageStart("describe") >>
                 /\ probe' = (IF probe_ok THEN "ok" ELSE "failed")
                 /\ error' = "SystemExit"
                 /\ pc' = "exit1"
                 /\ UNCHANGED << needs, task, consumed, successful, failed, loaded,
                                 emitter >>
            ELSE LET nd == NeedsDescription(items)
                     total == Len(nd)
                     em == SetStageEm("describe", total)
                 IN /\ stage_log' = stage_log \o << StageStart("describe") >>
                    /\ probe' = (IF probe_ok THEN "ok" ELSE "failed")
                    /\ needs' = nd
                    /\ loaded' = items
                    /\ IF total = 0
                       THEN \* line 285 returns the list alone; line 374 unpacks it
                            /\ events' = events \o
                                 << Info(emitter, "All items already have descriptions", 0) >>
                            /\ error' = IF Len(items) = 2 THEN "TypeError" ELSE "ValueError"
                            /\ pc' = "failed"
                            /\ UNCHANGED << task, consumed, successful, failed, emitter >>
                       ELSE /\ emitter' = em
                            /\ events' = events \o
                                 << SetStageEv("describe", total),
                                    Info(em, "Found items needing descriptions", 0) >>
                            /\ task' = [ i \in 1..total |-> NewTask(nd[i]) ]
                            /\ consumed' = {}
                            /\ successful' = 0
                            /\ failed' = << >>
                            /\ pc' = "describe_loop"
                            /\ UNCHANGED error
    /\ UNCHANGED << webVars, exit_code, callVars, handler, indexVars, registryVars, fsVars, localVars, config, items, collection_overview,
                    organicVars, saveVars >>

\* the executor exists from line 309 until its with-block is left
ExecutorAlive ==
    \/ pc \in {"describe_loop", "describe_abort"}
    \/ pc = "saving" /\ save_ret = "loop"

Running == { i \in 1..Len(task) : task[i].st = "running" }
Pending == { i \in 1..Len(task) : task[i].st = "pending" }
Done == { i \in 1..Len(task) : task[i].st = "done" }

\* a pool thread takes the oldest queued task
TaskStart(i) ==
    /\ ExecutorAlive
    /\ i \in Pending
    /\ \A j \in Pending : i <= j
    /\ Cardinality(Running) < args.max_workers
    /\ task' = [task EXCEPT ![i].st = "running"]
    /\ UNCHANGED << webVars, exit_code, callVars, handler, indexVars, registryVars, fsVars, pc, localVars, config, items, collection_overview,
                    organicVars, needs, consumed, successful, failed, probe, loaded,
                    saveVars, busVars, stage_log, error >>

\* process_item runs in the pool thread and returns (or raises)
TaskFinish(i) ==
    /\ ExecutorAlive
    /\ i \in Running
    /\ \E r \in Replies :
         LET res == ProcessItem(config.collection_type, r)
         IN task' = [task EXCEPT ![i] = [description |-> res.description,
                                         category |-> res.category,
                                         outcome |-> res.outcome,
                                         item |-> task[i].item, st |-> "done"]]
    /\ UNCHANGED << webVars, exit_code, callVars, handler, indexVars, registryVars, fsVars, pc, localVars, config, items, collection_overview,
                    organicVars, needs, consumed, successful, failed, probe, loaded,
                    saveVars, busVars, stage_log, error >>

\* save_callback of run_full_pipeline, lines 370-371: it reads the local
\* collection_overview of the enclosing call
SaveCallbackRaises(overview) == overview = "unbound"

\* one iteration of the as_completed loop, lines 317-345
Consume(i) ==
    /\ pc = "describe_loop"
    /\ i \in Done \ consumed
    /\ consumed' = consumed \cup {i}
    /\ LET t == task[i]
       IN IF t.outcome = "raise"
          THEN \* future.result() re-raises
               /\ error' = "KeyError"
               /\ pc' = "describe_abort"
               /\ UNCHANGED << disk, items, failed, saveVars, busVars >>
          ELSE IF t.outcome = "fail"
          THEN /\ events' = events \o << Warn(emitter, "no_content_or_failed", t.item) >>
               /\ failed' = Append(failed, t.item)
               /\ UNCHANGED << disk, pc, items, saveVars, emitter, error >>
          ELSE LET em == SetProgressEm(emitter, i)
                   merged == MergeResult(items, t.item, t.description, t.category)
               IN /\ emitter' = em
                  /\ events' = events \o << SetProgressEv(emitter, i, t.item),
                                            Info(em, "described", t.item) >>
                  /\ items' = merged
                  /\ IF SaveCallbackRaises(collection_overview)
                     THEN /\ error' = "NameError"
                          /\ pc' = "describe_abort"
                          /\ UNCHANGED << disk, saveVars, failed >>
                     ELSE /\ SaveBegin(SaveIndexDoc(merged, collection_overview), "loop")
                          /\ UNCHANGED << save_log, snapshot, failed, error >>
    /\ UNCHANGED << webVars, exit_code, callVars, handler, indexVars, registryVars, index_dir, cfgDot, cfgRoot, tree, filed, folders, rendered, localVars, config,
                    collection_overview, organicVars, needs, task, successful,
                    probe, loaded, stage_log >>

\* an exception leaves the with-block: shutdown waits for every task
DescribeAbort ==
    /\ pc = "describe_abort"
    /\ Done = 1..Len(task)
    /\ pc' = "failed"
    /\ UNCHANGED << webVars, exit_code, callVars, handler, indexVars, registryVars, fsVars, localVars, config, items, collection_overview,
                    organicVars, describeVars, saveVars, busVars, stage_log, error >>

\* generate_collection_overview, lines 194-255: no model call without a
\* described item; otherwise the model's paragraph or None
OverviewChoices(its) ==
    IF \A i \in 1..Len(its) : its[i].description \in {"null", ""}
    THEN {"null"} ELSE {"new", "failed"}

\* after the loop: describer.py 349-379 and pipeline.py 374-380
DescribeFinish ==
    /\ pc = "describe_loop"
    /\ consumed = 1..Len(task)
    /\ LET done_ev == << CompleteStageEv(emitter, "Completed descriptions") >> \o
                      (IF failed # << >> THEN << Warn(emitter, "Failed items", 0) >>
                       ELSE << >>)
       IN IF successful > 0
          THEN \E ov \in OverviewChoices(items) :
                 LET gen == << Info(emitter, "Generating collection overview...", 0) >>
                 IN IF ov = "new"
                    THEN /\ events' = events \o done_ev \o gen \o
                                      << Info(emitter, "Collection overview", 0) >>
                         /\ collection_overview' = "new"
                         /\ SaveBegin(SaveIndexDoc(items, "new"), "final")
                         /\ UNCHANGED << stage_log, save_log, snapshot >>
                    ELSE /\ events' = events \o done_ev \o gen \o
                              (IF ov = "failed"
                               THEN << Warn(emitter, "Failed to generate collection overview", 0) >>
                               ELSE << >>)
                         /\ stage_log' = stage_log \o << StageEnd("describe") >>
                         /\ pc' = StageAfter("describe")
                         /\ UNCHANGED << disk, collection_overview, saveVars >>
          ELSE /\ events' = events \o done_ev
               /\ stage_log' = stage_log \o << StageEnd("describe") >>
               /\ pc' = StageAfter("describe")
               /\ UNCHANGED << disk, collection_overview, saveVars >>
    /\ UNCHANGED << webVars, exit_code, callVars, handler, indexVars, registryVars, index_dir, cfgDot, cfgRoot, tree, filed, folders, rendered, localVars, config,
                    items, organicVars, describeVars, emitter, error >>

\* save_index from yaml.dump to return, and what the caller does next
SaveEnd ==
    /\ pc = "saving"
    /\ disk' = save_doc
    /\ snapshot' = save_doc
    /\ saving' = saving \ {"main"}
    /\ save_doc' = NoDoc
    /\ save_ret' = "none"
    /\ IF save_ret = "scan"
       THEN /\ stage_log' = stage_log \o << StageEnd("scan") >>
            /\ pc' = StageAfter("scan")
            /\ UNCHANGED << successful, save_log >>
       ELSE IF save_ret = "loop"
       THEN /\ successful' = successful + 1
            /\ save_log' = Append(save_log, save_doc.items)
            /\ pc' = "describe_loop"
            /\ UNCHANGED stage_log
       ELSE /\ stage_log' = stage_log \o << StageEnd("describe") >>
            /\ save_log' = Append(save_log, save_doc.items)
            /\ pc' = StageAfter("describe")
            /\ UNCHANGED successful
    /\ UNCHANGED << webVars, exit_code, callVars, handler, indexVars, registryVars, index_dir, cfgDot, cfgRoot, tree, filed, folders, rendered, localVars, config,
                    items, collection_overview, organicVars, needs, task, consumed,
                    failed, probe, loaded, busVars, error >>

\* Stage 4, lines 385-417, with generate_collection and
\* generate_html_collection
StageRender ==
    /\ pc = "render"
    /\ IF args.skip_readme
       THEN /\ pc' = StageAfter("render")
            /\ UNCHANGED << rendered, busVars, stage_log, error >>
       ELSE IF collection_overview = "unbound"
       THEN \* line 401 reads a local that no branch assigned
            /\ error' = "UnboundLocalError"
            /\ stage_log' = stage_log \o << StageStart("render") >>
            /\ pc' = "failed"
            /\ UNCHANGED << rendered, busVars >>
       ELSE LET em == SetStageEm("render", 0)
            IN /\ emitter' = em
               /\ events' = events \o
                    << SetStageEv("render", 0),
                       CompleteStageEv(em, "Collection.md generated"),
                       SetStageEv("render", 0),
                       CompleteStageEv(em, "Collection.html generated") >>
               /\ rendered' = [overview |-> collection_overview, total |-> Len(items),
                               written |-> TRUE]
               /\ stage_log' = stage_log \o << StageStart("render"), StageEnd("render") >>
               /\ pc' = StageAfter("render")
               /\ UNCHANGED error
    /\ UNCHANGED << webVars, exit_code, callVars, handler, indexVars, registryVars, index_dir, cfgDot, cfgRoot, tree, filed, folders, disk, localVars, config, items,
                    collection_overview, organicVars, describeVars, saveVars >>

\* ----------------------------------------------------------- cmd_analyze
\* __main__.py 58-94: the analyze command
CmdAnalyze ==
    /\ pc = "idle"
    /\ args' = [NoArgs EXCEPT !.cmd = "analyze"]
    /\ \E probe_ok \in BOOLEAN :
         IF probe_ok
         THEN /\ \E t \in Types : cfgRoot' = CreateCollection(cfgRoot, t)
              /\ pc' = "done"
              /\ UNCHANGED error
         ELSE /\ error' = "probe"
              /\ pc' = "failed"
              /\ UNCHANGED cfgRoot
    /\ UNCHANGED << webVars, exit_code, callVars, handler, indexVars, registryVars, index_dir, cfgDot, tree, filed, folders, disk, rendered, skip_process_new, auto_file,
                    config, items, collection_overview, organicVars, describeVars,
                    saveVars, busVars, stage_log >>

\* ------------------------------------------- cmd_scan, cmd_describe, cmd_render
\* __main__.py 97-173: the three single-stage commands call
\* run_full_pipeline with fixed skip flags
CommandArgs(cmd, w) ==
    [ skip_process_new |-> TRUE, auto_file |-> FALSE, cmd |-> cmd,
      workflow_mode |-> "manual", skip_analyze |-> TRUE,
      skip_scan |-> (cmd # "scan"), skip_describe |-> (cmd # "describe"),
      skip_readme |-> (cmd # "render"), max_workers |-> w ]

StartCommand(a) ==
    /\ pc = "idle"
    /\ args' = a
    /\ skip_process_new' = ModeSkipProcessNew(a.workflow_mode, a.skip_process_new)
    /\ auto_file' = ModeAutoFile(a.workflow_mode, a.auto_file)
    /\ index_dir' = TRUE
    /\ pc' = StageOrder[1]
    /\ UNCHANGED << webVars, exit_code, callVars, handler, indexVars, registryVars, rootVars, config, items, collection_overview, organicVars,
                    describeVars, saveVars, busVars, stage_log, error >>

CmdScan == StartCommand(CommandArgs("scan", 1))

\* what parse_args and main do with a command line that names no known
\* command: print_help and return 1 without one, parser.error (status 2)
\* for a word that is not a choice of the subparsers
ParseExit(word) == IF word = "" THEN 1 ELSE 2

\* main, lines 326-339: no handler is dispatched
ParseArgsExit ==
    /\ pc = "idle"
    /\ exit_code = -1
    /\ \E word \in {"", "invalid_command"} : exit_code' = ParseExit(word)
    /\ pc' = "exited"
    /\ UNCHANGED << webVars, callVars, handler, indexVars, registryVars, fsVars, localVars, config,
                    items, collection_overview, organicVars, describeVars, saveVars,
                    busVars, stage_log, error >>

\* main, lines 341-366: the handler returned True or False and
\* sys.exit(main()) passes it on, or the probe's sys.exit(1) went through
\* every except Exception
MainReturn ==
    /\ pc \in {"done", "failed", "exit1"}
    /\ exit_code = -1
    /\ exit_code' = (IF pc = "done" THEN 0 ELSE 1)
    /\ UNCHANGED << webVars, callVars, handler, indexVars, registryVars, fsVars, localVars, config,
                    items, collection_overview, organicVars, describeVars, saveVars,
                    busVars, stage_log, error, pc >>

CmdDescribe == \E w \in 1..MaxWorkers : StartCommand(CommandArgs("describe", w))

CmdRender == StartCommand(CommandArgs("render", 1))

\* ---------------------------------------------------------- specifications
Workers ==
    \/ \E i \in 1..MaxItems : TaskStart(i)
    \/ \E i \in 1..MaxItems : TaskFinish(i)

Stages ==
    \/ StageOrganic
    \/ StageAnalyze
    \/ LoadConfig
    \/ StageScan
    \/ StageDescribe
    \/ \E i \in 1..MaxItems : Consume(i)
    \/ DescribeAbort
    \/ DescribeFinish
    \/ SaveEnd
    \/ StageRender

\* the pipeline called with any arguments, and the analyze command
Next ==
    \/ StartPipeline
    \/ CmdAnalyze
    \/ OrganicItem
    \/ OrganicDone
    \/ Stages
    \/ Workers

Spec == Init /\ [][Next]_vars

\* the same runs over a collection that has a config and an index
SpecExisting == InitExisting /\ [][Next]_vars

\* the scan, describe and render commands
NextCommands ==
    \/ CmdScan
    \/ CmdDescribe
    \/ CmdRender
    \/ Stages
    \/ Workers

SpecCommands == InitCommands /\ [][NextCommands]_vars

\* the command line: main from parse_args to sys.exit
NextCli ==
    \/ ParseArgsExit
    \/ NextCommands
    \/ MainReturn

SpecCli == InitCommands /\ [][NextCli]_vars

\* Stage 0 of the pipeline alone: process_new_content from its call to its
\* return
NextOrganic ==
    \/ StartPipeline
    \/ StageOrganic
    \/ OrganicItem
    \/ OrganicDone

SpecOrganic == InitOrganic /\ [][NextOrganic]_vars

\* generate_description applied to any reply
NextParse == GenerateDescription

SpecParse == InitParse /\ [][NextParse]_vars

\* a producer emitting events to the console handler
NextBus ==
    \/ EmitCall
    \/ EmitReturn

SpecBus == InitBus /\ [][NextBus]_vars

\* the imports of the pipeline module, then auto_detect
NextRegistry ==
    \/ ImportScanner
    \/ ImportPlugin
    \/ AutoDetectCall

SpecRegistry == InitRegistry /\ [][NextRegistry]_vars

\* the web backend: its requests and its background tasks
NextWeb ==
    \/ CreateCollectionRequest
    \/ DeleteCollection
    \/ RunPipeline
    \/ RunAnalyzerTask
    \/ RunPipelineTask

SpecWeb == InitWeb /\ [][NextWeb]_vars

\* the server runs every background task it was given once the response
\* is sent
SpecWebFair ==
    /\ SpecWeb
    /\ WF_vars(RunAnalyzerTask)
    /\ WF_vars(RunPipelineTask)

\* load_index followed by save_index
NextIndex ==
    \/ LoadStep
    \/ SaveStep

SpecIndex == InitIndex /\ [][NextIndex]_vars

\* ============================================================== claims
RunOver == pc \in {"done", "failed", "exit1"}

\* path -> description pairs of an item list
DescPairs(its) ==
    { << its[i].path, its[i].description >> :
        i \in { k \in 1..Len(its) : its[k].description \notin {"null", ""} } }

\* (path, description, category) of the described items of an item list
Results(its) ==
    { << its[i].path, its[i].description, its[i].category >> :
        i \in { k \in 1..Len(its) : its[k].description \notin {"null", ""} } }

InDescribeSave == pc = "saving" /\ save_ret \in {"loop", "final"}

\* C1: during a Describer run, every save that completes leaves on disk
\* all the path -> description pairs the previous complete index file held.
C1_SnapshotsGrow ==
    [][ InDescribeSave => DescPairs(snapshot.items) \subseteq DescPairs(snapshot'.items) ]_vars

\* C1 witness: an incremental save added a description to an index that
\* already held one
C1_Witness ==
    /\ Len(save_log) >= 1
    /\ \E i \in 1..Len(task) : task[i].outcome = "ok" /\ i \in consumed
    /\ Cardinality(DescPairs(snapshot.items)) >= 2
    /\ pc = "describe_loop"

StageRank(s) ==
    IF s = "organic" THEN 0
    ELSE IF s = "analyze" THEN 1
    ELSE IF s = "scan" THEN 2
    ELSE IF s = "describe" THEN 3
    ELSE 4

\* C2: stages start in the order OrganicPlace, Analyze, Scan, Describe,
\* Render, and when a stage starts every stage started before it has ended.
C2_StageOrder ==
    \A i \in 1..Len(stage_log) : \A j \in 1..Len(stage_log) :
        (i < j /\ stage_log[i].ev = "start" /\ stage_log[j].ev = "start") =>
            /\ StageRank(stage_log[i].stage) < StageRank(stage_log[j].stage)
            /\ \E k \in (i + 1)..(j - 1) :
                  stage_log[k] = StageEnd(stage_log[i].stage)

\* C2 witness: a run in which four stages ran one after the other to the end
C2_Witness ==
    /\ pc = "done"
    /\ Len(stage_log) = 8
    /\ stage_log[1] = StageStart("organic")
    /\ stage_log[8] = StageEnd("render")

DescribeOver == task # << >> /\ pc \in {"render", "done", "failed"}

DiskItemOf(p) == { i \in 1..Len(disk.items) : disk.items[i].path = p }

Reported(p) ==
    \E e \in 1..Len(events) :
        events[e].level \in {"warn", "error"} /\ events[e].about = p

\* C3: once the Describe stage is over, every task that produced a result
\* has it in the saved index, and every task that failed, for whatever
\* reason, left its item undescribed and was reported on the event bus.
C3_FailureIsolated ==
    DescribeOver =>
        \A i \in 1..Len(task) :
            IF task[i].outcome = "ok"
            THEN \E k \in DiskItemOf(task[i].item) :
                    disk.items[k].description = task[i].description
            ELSE /\ \A k \in DiskItemOf(task[i].item) :
                       disk.items[k].description \in {"null", ""}
                 /\ Reported(task[i].item)

\* C3 failing input reached: a task left by an exception, and the run over
C3_Witness ==
    /\ pc = "failed"
    /\ error = "KeyError"
    /\ \E i \in 1..Len(task) : task[i].outcome = "raise" /\ ~Reported(task[i].item)

\* C4: during Describe at most one save is in progress and it is the main
\* thread's, a worker step leaves the index file alone, and every save
\* holds the results of every earlier save.
C4_SavesSerialized ==
    [][ /\ Cardinality(saving') <= 1
        /\ saving' \subseteq {"main"}
        /\ (task # << >> /\ task' # task) => disk' = disk
        /\ Len(save_log') > Len(save_log) =>
              \A k \in 1..Len(save_log) :
                  Results(save_log[k]) \subseteq Results(save_log'[Len(save_log')]) ]_vars

\* C4 witness: a second incremental save is in progress after the first
C4_Witness ==
    /\ pc = "saving"
    /\ save_ret = "loop"
    /\ saving = {"main"}
    /\ Len(save_log) >= 1
    /\ Results(save_log[1]) # Results(save_doc.items)

\* the task got {"description": "X", "category": "dev_tools"} from the model
ValidlyAnswered(i) ==
    /\ task[i].outcome = "ok"
    /\ task[i].description = "X"
    /\ task[i].category = "dev_tools"

ScanAndDescribeRan ==
    /\ args.cmd = "update"
    /\ ~args.skip_scan
    /\ ~args.skip_describe
    /\ probe = "ok"
    /\ Len(items) > 0
    /\ Len(task) = Len(items)

\* C5: a run in which Scan and Describe execute and the model answers every
\* item with a valid description and a declared category ends with every
\* scanned item carrying them in the saved index, under a non-null overview.
C5_ValidRunDescribesAll ==
    ( /\ RunOver
      /\ ScanAndDescribeRan
      /\ config.collection_type = "repositories"
      /\ \A i \in 1..Len(task) : ValidlyAnswered(i) )
    => /\ Len(disk.items) = Len(items)
       /\ \A k \in 1..Len(disk.items) :
             /\ disk.items[k].description = "X"
             /\ disk.items[k].category = "dev_tools"
       /\ \/ disk.overview # "null"
          \/ \E e \in 1..Len(events) :
                events[e].msg = "Failed to generate collection overview"

\* C5 failing input reached: the first save_callback reads the unassigned
\* overview and the run ends with the scanned items undescribed
C5_Witness ==
    /\ pc = "failed"
    /\ error = "NameError"
    /\ ScanAndDescribeRan
    /\ \A i \in 1..Len(task) : ValidlyAnswered(i)
    /\ \A k \in 1..Len(disk.items) : disk.items[k].description = "null"

NothingToDescribe ==
    \E e \in 1..Len(events) : events[e].msg = "All items already have descriptions"

\* C6: when no item needs a description the Describe stage changes nothing
\* and the run goes on to Render instead of failing.
C6_NoOpContinues == NothingToDescribe => pc # "failed"

\* C6 failing input reached: nothing to describe, and the run failed on the
\* unpacking of the one value describe_collection returned
C6_Witness ==
    /\ NothingToDescribe
    /\ pc = "failed"
    /\ error \in {"ValueError", "TypeError"}
    /\ disk = snapshot
    /\ ~rendered.written

C8_ScheduledNeverMoves ==
    (args.cmd = "update" /\ args.workflow_mode = "scheduled") =>
        /\ skip_process_new
        /\ ~auto_file
        /\ filed = {}
        /\ pc # "organic_loop"
        /\ \A k \in 1..Len(stage_log) : stage_log[k].stage # "organic"

\* C8 witness: a scheduled run asked to place and auto-file, finished with
\* the tree untouched
C8_Witness ==
    /\ args.cmd = "update"
    /\ args.workflow_mode = "scheduled"
    /\ ~args.skip_process_new
    /\ args.auto_file
    /\ cfgRoot # NoConfig
    /\ tree # {}
    /\ pc = "done"

\* C9: no step of the engine changes a collection config that exists.
C9_ConfigNeverOverwritten ==
    [][ /\ cfgRoot # NoConfig => cfgRoot' = cfgRoot
        /\ cfgDot # NoConfig => cfgDot' = cfgDot ]_vars

\* C10: the index a Scan saves holds, for every item of the prior index
\* whose path is still in the collection, that item with its description
\* and category.
C10_ScanPreserves ==
    [][ (pc = "saving" /\ save_ret = "scan") =>
          \A j \in 1..Len(snapshot.items) :
              snapshot.items[j].path \in tree =>
                  \E i \in 1..Len(disk'.items) : disk'.items[i] = snapshot.items[j] ]_vars

\* C10 witness: a scan over a described prior index has been saved, with a
\* path that stayed and a path that is new
C10_Witness ==
    /\ args.cmd = "scan"
    /\ pc = "done"
    /\ \E i \in 1..Len(disk.items) :
          disk.items[i].description = "old" /\ disk.items[i].category = "dev_tools"
    /\ \E i \in 1..Len(disk.items) : disk.items[i].description = "null"

CategoryAllowed(c) ==
    c = "null" \/ c \in SeqRange(ConfigCategories(LoadCollectionConfig(cfgDot, cfgRoot)))

\* C11: no save puts into the index an item whose category is neither null
\* nor in the config's categories list, unless the index file before the
\* save already held that item with that category.
C11_CategoriesDeclared ==
    [][ (pc = "saving" /\ disk'.state = "ok") =>
          \A i \in 1..Len(disk'.items) :
              \/ CategoryAllowed(disk'.items[i].category)
              \/ \E j \in 1..Len(snapshot.items) :
                    /\ snapshot.items[j].path = disk'.items[i].path
                    /\ snapshot.items[j].category = disk'.items[i].category ]_vars

\* C11 failing input reached: a fallback scan with no prior index saved a
\* directory under a category the config does not list
C11_Witness ==
    /\ config.collection_type = "fallback"
    /\ args.cmd = "scan"
    /\ pc = "done"
    /\ \E i \in 1..Len(disk.items) : disk.items[i].category = "directories"
    /\ "directories" \notin SeqRange(ConfigCategories(config))

AllFourSkipped(a) ==
    /\ a.cmd = "update"
    /\ a.skip_analyze
    /\ a.skip_scan
    /\ a.skip_describe
    /\ a.skip_readme

\* C12: a run of update with --skip-analyze --skip-scan --skip-describe
\* --skip-render creates, changes, moves or deletes nothing under the
\* collection root.
C12_AllSkippedNoOp ==
    [][ AllFourSkipped(args') => UNCHANGED fsVars ]_vars

\* C12 failing input reached: the four stages were skipped, and the run
\* ended with a new item moved into a folder
C12_Witness ==
    /\ AllFourSkipped(args)
    /\ pc = "done"
    /\ filed # {}

StageRan(st) == \E k \in 1..Len(stage_log) : stage_log[k] = StageStart(st)

\* C13: a completed organic-mode run has run all five stages, whatever
\* skip flags were passed.
C13_OrganicRunsAll ==
    (args.cmd = "update" /\ args.workflow_mode = "organic" /\ pc = "done") =>
        \A st \in {"organic", "analyze", "scan", "describe", "render"} : StageRan(st)

\* C13 failing input reached: an organic-mode run given --skip-scan ended
\* without Scan having run
C13_Witness ==
    /\ args.cmd = "update"
    /\ args.workflow_mode = "organic"
    /\ args.skip_scan
    /\ ~args.skip_analyze /\ ~args.skip_describe /\ ~args.skip_readme
    /\ pc = "done"
    /\ StageRan("organic")
    /\ ~StageRan("scan")

\* one iteration of the placer's loop, and what it did with item p
OrganicStep == pc = "organic_loop" /\ new_pos' = new_pos + 1
ItemMoved(p) == p \in tree /\ p \notin tree' /\ p \in filed'
ItemRemains(p) == p \in tree' /\ tree' = tree /\ filed' = filed /\ folders' = folders
Emitted(level, msg, p) ==
    /\ Last(events').level = level
    /\ Last(events').msg = msg
    /\ Last(events').about = p

C15_MoveGuarded ==
    [][ OrganicStep =>
          LET p == new_items[new_pos']
          IN /\ ItemMoved(p) => p \notin folders
             /\ Emitted("error", "Failed to auto-file", p) => ItemRemains(p) ]_vars

\* C16: the index file on disk is at every moment a complete snapshot, the
\* previous one or the new one, never a truncated or partly written file.
C16_IndexAlwaysComplete ==
    /\ disk.state # "partial"
    /\ disk.state = "ok" => disk = snapshot

\* C16 failing input reached: save_index has opened the index for writing
\* over a complete index of an earlier save, and the file is truncated
C16_Witness ==
    /\ pc = "saving"
    /\ "main" \in saving
    /\ snapshot.state = "ok"
    /\ Len(snapshot.items) > 0
    /\ disk.state = "partial"

\* tasks of the Describe stage that did not produce a description
FailingTasks == { i \in 1..Len(task) : task[i].outcome # "ok" }

\* warn events that name an item
ItemWarnings == { e \in 1..Len(events) : events[e].level = "warn" /\ events[e].about # 0 }

\* C17: when k of the N tasks of a describe run fail, the run ends
\* successfully with the other N - k items described on disk and the k
\* failing ones still without a description, and the bus has received
\* exactly k warn events that name an item, each naming a failing one.
C17_PartialFailure ==
    (RunOver /\ args.cmd = "describe" /\ task # << >>) =>
        /\ pc = "done"
        /\ \A i \in 1..Len(task) :
              \E k \in DiskItemOf(task[i].item) :
                  IF i \in FailingTasks
                  THEN disk.items[k].description \in {"null", ""}
                  ELSE disk.items[k].description = task[i].description
        /\ Cardinality(ItemWarnings) = Cardinality(FailingTasks)
        /\ \A e \in ItemWarnings : \E i \in FailingTasks : events[e].about = task[i].item

\* C17 failing input reached: a describe run over a media collection ended
\* with the exception of a task, its items undescribed and no warn event
C17_Witness ==
    /\ pc = "failed"
    /\ args.cmd = "describe"
    /\ config.collection_type = "media"
    /\ Len(task) = MaxItems
    /\ FailingTasks = 1..Len(task)
    /\ ItemWarnings = {}
    /\ \A k \in 1..Len(disk.items) : disk.items[k].description = "null"

\* (path, description, category) of the tasks that produced a description
TaskResults ==
    { << task[i].item, task[i].description, task[i].category >> :
        i \in { k \in 1..Len(task) : task[k].outcome = "ok" } }

\* C18: whatever the number of workers and the order in which the tasks
\* complete, a describe run ends with the same (path, description,
\* category) set on disk: the described items it was given, and for every
\* item the model described, that item's reply.
C18_WorkersIrrelevant ==
    (RunOver /\ args.cmd = "describe" /\ task # << >>) =>
        Results(disk.items) = Results(loaded) \cup TaskResults

\* C18 witness: with two workers, the second item was described and saved
\* before the first, and the run ended with both on disk
C18_Witness ==
    /\ pc = "done"
    /\ args.cmd = "describe"
    /\ args.max_workers = 2
    /\ Len(task) = 2
    /\ \A i \in 1..2 : task[i].outcome = "ok"
    /\ task[1].description # task[2].description
    /\ Len(save_log) >= 2
    /\ \E k \in 1..Len(save_log[1]) :
          /\ save_log[1][k].path = task[2].item
          /\ save_log[1][k].description = task[2].description
    /\ \E k \in 1..Len(save_log[1]) :
          /\ save_log[1][k].path = task[1].item
          /\ save_log[1][k].description = "null"

\* C19: a reply that is not a JSON object still describes the item: the
\* description is the reply without its surrounding blanks, cut to 150
\* characters, and the category is the last of the scanner's categories.
C19_RawReplyDescribes ==
    (response.kind \notin {"none", "object"}) =>
        /\ parsed.outcome = "ok"
        /\ parsed.description.lead = 0
        /\ parsed.description.trail = 0
        /\ parsed.description.len =
              (IF response.raw.len < DescriptionLimit THEN response.raw.len
               ELSE DescriptionLimit)
        /\ parsed.category = Last(ConfigCategories(cfgRoot))

\* C19 failing input reached: the reply is a JSON string, and
\* generate_description returned None
C19_Witness ==
    /\ response.kind = "string"
    /\ parsed.outcome = "none"

\* the stage name the emitter carries during a block of the pipeline
\* (Stage 0 reports as analyze)
EventStageOf(st) == IF st = "organic" THEN "analyze" ELSE st

CompletionEvent(e, st) ==
    /\ e.stage = EventStageOf(st)
    /\ e.level = "success"
    /\ e.pct = 100
    /\ e.i = e.n

\* C20: whenever a stage completes, the bus has received for it an event
\* with i = n, pct = 100 and severity success.
C20_CompletionEvent ==
    [][ \A st \in {"organic", "analyze", "scan", "describe", "render"} :
          ( /\ Len(stage_log') > Len(stage_log)
            /\ Last(stage_log') = StageEnd(st) )
          => \E k \in 1..Len(events') : CompletionEvent(events'[k], st) ]_vars

\* C20 failing input reached: a run has completed Scan, and Stage 0 before
\* it handled an item, with no completion event of stage scan and with a
\* success event of Stage 0 whose i is 1 and n is 0
C20_Witness ==
    /\ \E k \in 1..Len(stage_log) : stage_log[k] = StageEnd("scan")
    /\ \A k \in 1..Len(events) : events[k].stage # "scan"
    /\ \E k \in 1..Len(events) :
          /\ events[k].msg = "Processed items"
          /\ events[k].level = "success"
          /\ events[k].pct = 100
          /\ events[k].i = 1
          /\ events[k].n = 0

\* events that open and that close a stage on the bus
Activations(s) ==
    { k \in 1..Len(events) : events[k].stage = s /\ events[k].msg = "Starting stage" }
Completions(s) ==
    { k \in 1..Len(events) :
        events[k].stage = s /\ events[k].level = "success" /\ events[k].pct = 100 }

\* C21: on the bus every stage is activated at most once in a run and
\* completed at most once, and no event of a stage follows its completion.
C21_StageMachine ==
    \A s \in {"analyze", "scan", "describe", "render"} :
        /\ Cardinality(Activations(s)) <= 1
        /\ Cardinality(Completions(s)) <= 1
        /\ \A k \in Completions(s) :
              \A j \in (k + 1)..Len(events) : events[j].stage # s

\* C21 failing input reached: a describe run ended with events of stage
\* describe after the stage's completion event
C21_Witness ==
    /\ pc = "done"
    /\ args.cmd = "describe"
    /\ \E k \in Completions("describe") :
          \E j \in (k + 1)..Len(events) :
              events[j].stage = "describe" /\ events[j].msg = "Generating collection overview..."

\* the block of stage st was entered and not left
StageOpen(st) ==
    /\ StageRan(st)
    /\ \A k \in 1..Len(stage_log) : stage_log[k] # StageEnd(st)

\* C22: a run ended by an exception raised inside a stage has emitted an
\* error event that carries that stage.
C22_ExceptionReported ==
    \A st \in {"organic", "analyze", "scan", "describe", "render"} :
        (pc = "failed" /\ StageOpen(st)) =>
            \E k \in 1..Len(events) :
                /\ events[k].level = "error"
                /\ events[k].stage = EventStageOf(st)

\* C22 failing input reached: an update run ended in Describe by the
\* NameError of save_callback with no error event on the bus
C22_Witness ==
    /\ pc = "failed"
    /\ args.cmd = "update"
    /\ error = "NameError"
    /\ StageOpen("describe")
    /\ \A k \in 1..Len(events) : events[k].level # "error"

\* C23: the producer is never held inside emit while the consumer handles
\* the event: emit has returned whenever a handler is running.
C23_NonBlocking == handler => pc # "emit"

\* C23 failing input reached: the producer is inside its second emit while
\* the console handler is handling the event
C23_Witness ==
    /\ pc = "emit"
    /\ handler
    /\ Len(events) = 2

\* ---------------------------------------------------------------- C24
\* the keys of an item record and their values, a missing optional key
\* counting as a null one
ItemContent(rec) ==
    [path |-> rec.path,
     description |-> IF rec.description = "absent" THEN "null" ELSE rec.description,
     category |-> IF rec.category = "absent" THEN "null" ELSE rec.category,
     extra |-> rec.extra]

\* two index files that differ at most in the order of their keys
SameDocument(d, e) ==
    /\ d.layout = e.layout
    /\ d.overview = e.overview
    /\ Len(d.items) = Len(e.items)
    /\ \A i \in 1..Len(d.items) : ItemContent(d.items[i]) = ItemContent(e.items[i])

\* C24: saving what load_index returned leaves the index file as it was,
\* up to the order of its keys: every item record keeps its unknown keys
\* at top level, and no item, field value or overview is lost or changed
C24_LoadSaveNoOp ==
    [][(pc = "loaded" /\ pc' = "saved") => SameDocument(yaml_doc, yaml_doc')]_vars

\* an index file in the mapping layout without an overview, whose item
\* has an unknown key, has been loaded and saved
C24_Witness ==
    /\ pc = "saved"
    /\ in_memory.overview = "null"
    /\ Len(in_memory.items) = 1
    /\ in_memory.items[1].metadata = {"stars"}
    /\ yaml_doc.layout = "list"
    /\ yaml_doc.items[1].extra = {"stars"}

\* ---------------------------------------------------------------- C25
\* C25: auto_detect returns the first registered scanner that detects the
\* root, and the fallback scanner is the last one registered, so it is
\* returned only when no other registered scanner detects the root
C25_FallbackLast ==
    detected # "unset" =>
        /\ detected = AutoDetect(registry, root_detects)
        /\ registry[Len(registry)] = "fallback"
        /\ detected = "fallback" =>
               \A i \in 1..Len(registry) :
                   registry[i] # "fallback" => ~Detect(registry[i], root_detects)

\* the media scanner is registered and detects the root, and auto_detect
\* returned the fallback scanner
C25_Witness ==
    /\ detected = "fallback"
    /\ \E i \in 1..Len(registry) : registry[i] = "media"
    /\ Detect("media", root_detects)

\* ---------------------------------------------------------------- C26
\* C26: the command line process exits with 0 when the command succeeded
\* and with 1 when it failed or no known command was given; it never
\* exits with another code
C26_ExitZeroOrOne ==
    exit_code # -1 =>
        /\ exit_code \in {0, 1}
        /\ exit_code = 0 <=> pc = "done"

\* a describe command whose probe of the model failed has exited with 1
C26_Witness ==
    /\ exit_code = 1
    /\ args.cmd = "describe"
    /\ probe = "failed"
    /\ pc = "exit1"

\* ---------------------------------------------------------------- C27
\* the skip flag of a stage as the run was called
SkipFlag(st) ==
    CASE st = "organic" -> args.skip_process_new
      [] st = "analyze" -> args.skip_analyze
      [] st = "scan" -> args.skip_scan
      [] st = "describe" -> args.skip_describe
      [] st = "render" -> args.skip_readme

\* a manual-mode run, with a model that answered the probe if it was
\* asked, has ended
ManualRunEnded ==
    /\ args.cmd = "update"
    /\ args.workflow_mode = "manual"
    /\ probe # "failed"
    /\ pc \in {"done", "failed", "exit1"}

\* C27: in manual mode, over a collection that has a config and an index
\* and with a reachable model, the run ends without an exception whatever the skip flags are, and it
\* has run exactly the stages whose flag was not set
C27_ManualRespectsFlags ==
    ManualRunEnded =>
        /\ pc = "done"
        /\ \A st \in {"organic", "analyze", "scan", "describe", "render"} :
               StageRan(st) <=> ~SkipFlag(st)

\* such a run with no flag set has ended by an exception
C27_Witness ==
    /\ ManualRunEnded
    /\ \A st \in {"organic", "analyze", "scan", "describe", "render"} : ~SkipFlag(st)
    /\ pc = "failed"

\* ---------------------------------------------------------------- C28
Accepted(r) == r <= Len(pipeline_runs)

\* the run is completed or failed and its collection is not running
Terminal(r) ==
    /\ Accepted(r)
    /\ pipeline_runs[r].status \in {"completed", "failed"}
    /\ collections[pipeline_runs[r].collection_id] # "running"

\* C28: every accepted run eventually has the status completed or failed,
\* however the pipeline ended, and its collection is then no longer
\* running
C28_RunsTerminate == \A r \in 1..MaxRuns : Accepted(r) ~> Terminal(r)

\* the task of a run is over, the run still has the status running and so
\* has its collection
C28_Witness ==
    /\ Accepted(1)
    /\ pipeline_runs[1].status = "running"
    /\ collections[pipeline_runs[1].collection_id] = "running"

\* ---------------------------------------------------------------- C29
\* the runs of a collection that are queued or running
InFlight(c) ==
    { r \in 1..Len(pipeline_runs) :
        /\ pipeline_runs[r].collection_id = c
        /\ pipeline_runs[r].status \in {"queued", "running"} }

\* C29: a collection has at most one run in flight: a run record is
\* created only for a collection that is idle, a request answered with 409
\* creates none, and no step leaves two queued or running runs of one
\* collection
C29_OneRunInFlight ==
    [][ /\ Len(pipeline_runs') > Len(pipeline_runs) =>
              /\ collections[pipeline_runs'[Len(pipeline_runs')].collection_id] = "idle"
              /\ last_status' = 200
        /\ (last_status' = 409 /\ UNCHANGED analyzer_tasks) =>
              UNCHANGED << pipeline_runs, collections >>
        /\ \A c \in CollectionIds : Cardinality(InFlight(c)') <= 1 ]_vars

\* a run request was answered with 409 while the collection's run is
\* queued, and no second record exists
C29_Witness ==
    /\ last_status = 409
    /\ Len(pipeline_runs) = 1
    /\ pipeline_runs[1].status = "queued"
    /\ collections[pipeline_runs[1].collection_id] = "running"

\* ---------------------------------------------------------------- C30
\* the item at position i had a description when describe_collection was
\* called
WasDescribed(i) == loaded[i].description \notin {"null", ""}

====
